---------------------------- MODULE Spec2Model ----------------------------
(***************************************************************************)
(* Model of YuiOss: the OssFileManager path engine (src/yui_oss/manager.py) *)
(* and the console's directory context (src/yui_oss/console.py).            *)
(*                                                                          *)
(* A Python str is a sequence of one-character strings, so that split,      *)
(* join, strip, replace, startswith and os.path.normpath are computed as    *)
(* Python computes them.  The platform is POSIX: os.sep is "/".             *)
(***************************************************************************)
EXTENDS Integers, Sequences, FiniteSets, TLC

VARIABLES
    pc,         \* position of the single command an invocation runs
    np_in,      \* norm_path: the raw path handed in
    np_out,     \* norm_path(np_in)
    np_twice,   \* norm_path(norm_path(np_in))
    root,       \* Yui.root
    attrs_root, \* the "root" entry persisted in the .yui file
    cd_args,    \* the args of the last cd command (a sequence of 0 or 1 paths)
    cd_prev,    \* <<root, attrs_root>> before the last cd command
    cd_msg,     \* what the last cd command printed: "changed" or "error"
    store,      \* the bucket: the set of object keys it holds
    store0,     \* the bucket as the last command found it
    calls,      \* the store calls the last command issued, in order
    reports,    \* the reporter callbacks the last command made, in order
    outcome,    \* how the last command returned: "ok" or the exception raised
    cmd,        \* the last manager command and its arguments
    local_fs    \* the local filesystem: its directories and its fetched files

vars == <<pc, np_in, np_out, np_twice, root, attrs_root, cd_args, cd_prev,
          cd_msg, store, store0, calls, reports, outcome, cmd, local_fs>>

normVars == <<np_in, np_out, np_twice>>
cdVars   == <<root, attrs_root, cd_args, cd_prev, cd_msg>>
opVars   == <<store, store0, calls, reports, outcome, cmd, local_fs>>

----------------------------------------------------------------------------
(* Bounds of the model *)

\* longest raw path handed to norm_path in SpecNorm
MaxLen == 4

----------------------------------------------------------------------------
(* Python str operations *)

SEP == <<"/">>

os_sep == <<"/">>

EMPTY == << >>

DOT == <<".">>

DOTDOT == <<".", ".">>

\* code points of the characters used, for the store's lexicographic listing
Ord(c) ==
    CASE c = " " -> 32 [] c = "$" -> 36 [] c = "." -> 46 [] c = "/" -> 47
      [] c = "a" -> 97 [] c = "b" -> 98 [] c = "c" -> 99 [] c = "d" -> 100
      [] c = "f" -> 102 [] c = "g" -> 103 [] c = "t" -> 116 [] c = "x" -> 120
      [] c = "y" -> 121 [] c = "z" -> 122

startswith(s, p) == Len(p) <= Len(s) /\ SubSeq(s, 1, Len(p)) = p

endswith(s, p) == Len(p) <= Len(s) /\ SubSeq(s, Len(s) - Len(p) + 1, Len(s)) = p

Drop(s, n) == SubSeq(s, n + 1, Len(s))

\* str.strip(chars): leading and trailing characters of the set cs removed
strip_chars(s, cs) ==
    LET keep == {i \in 1..Len(s) : s[i] \notin cs}
    IN  IF keep = {} THEN EMPTY
        ELSE LET lo == CHOOSE i \in keep : \A j \in keep : i <= j
                 hi == CHOOSE i \in keep : \A j \in keep : j <= i
             IN  SubSeq(s, lo, hi)

\* str.strip(): whitespace removed at both ends
strip(s) == strip_chars(s, {" "})

\* str.split(sep) for a one-character separator
RECURSIVE split(_, _)
split(s, sep) ==
    LET hits == {i \in 1..Len(s) : s[i] = sep[1]}
    IN  IF hits = {} THEN <<s>>
        ELSE LET i == CHOOSE k \in hits : \A j \in hits : k <= j
             IN  <<SubSeq(s, 1, i - 1)>> \o split(Drop(s, i), sep)

\* sep.join(parts)
RECURSIVE join(_, _)
join(parts, sep) ==
    IF parts = << >> THEN EMPTY
    ELSE IF Len(parts) = 1 THEN parts[1]
    ELSE parts[1] \o sep \o join(Tail(parts), sep)

\* str.replace(old, new): every non-overlapping occurrence, left to right
RECURSIVE replace(_, _, _)
replace(s, old, new) ==
    IF Len(s) < Len(old) \/ old = EMPTY THEN s
    ELSE IF startswith(s, old) THEN new \o replace(Drop(s, Len(old)), old, new)
    ELSE <<Head(s)>> \o replace(Tail(s), old, new)

\* parts[:-1]
butlast(parts) == SubSeq(parts, 1, Len(parts) - 1)

\* the component loop of posixpath.normpath
RECURSIVE collapse(_, _, _)
collapse(comps, new_comps, initial_slashes) ==
    IF comps = << >> THEN new_comps
    ELSE LET comp == Head(comps)
             nxt  == IF comp \in {EMPTY, DOT} THEN new_comps
                     ELSE IF \/ comp # DOTDOT
                             \/ (initial_slashes = 0 /\ new_comps = << >>)
                             \/ (new_comps # << >> /\ new_comps[Len(new_comps)] = DOTDOT)
                          THEN Append(new_comps, comp)
                     ELSE IF new_comps # << >> THEN butlast(new_comps)
                     ELSE new_comps
         IN  collapse(Tail(comps), nxt, initial_slashes)

\* os.path.normpath on POSIX
normpath(path) ==
    IF path = EMPTY THEN DOT
    ELSE LET initial_slashes ==
                 IF ~startswith(path, SEP) THEN 0
                 ELSE IF startswith(path, SEP \o SEP) /\ ~startswith(path, SEP \o SEP \o SEP)
                      THEN 2 ELSE 1
             body == join(collapse(split(path, SEP), << >>, initial_slashes), SEP)
             res  == IF initial_slashes = 2 THEN SEP \o SEP \o body
                     ELSE IF initial_slashes = 1 THEN SEP \o body
                     ELSE body
         IN  IF res = EMPTY THEN DOT ELSE res

----------------------------------------------------------------------------
(* OssFileManager.norm_path and is_dir *)

norm_path(remote_path) ==
    LET p1    == strip(remote_path)
        isdir == \/ endswith(p1, os_sep)
                 \/ endswith(p1, SEP)
                 \/ strip(p1) \in {EMPTY, DOT, DOTDOT}
        p2    == replace(normpath(p1), os_sep, SEP)
    IN  IF p2 = EMPTY \/ p2 = SEP THEN SEP
        ELSE IF isdir THEN p2 \o SEP
        ELSE p2

is_dir(remote_path) ==
    IF strip(remote_path) \in {EMPTY, DOT, DOTDOT} THEN TRUE
    ELSE endswith(norm_path(remote_path), SEP)

----------------------------------------------------------------------------
(* Raw paths *)

PathChars == {"a", ".", "/", " "}

RECURSIVE StrsOfLen(_, _)
StrsOfLen(cs, n) ==
    IF n = 0 THEN {EMPTY}
    ELSE {Append(s, c) : s \in StrsOfLen(cs, n - 1), c \in cs}

StrsUpTo(cs, n) == UNION {StrsOfLen(cs, k) : k \in 0..n}

RawPaths == StrsUpTo(PathChars, MaxLen)

----------------------------------------------------------------------------
(* Initial values of the parts of the state a specification does not use *)

NormIdle == np_in = EMPTY /\ np_out = EMPTY /\ np_twice = EMPTY

CdIdle == root = EMPTY /\ attrs_root = EMPTY /\ cd_args = << >>
          /\ cd_prev = <<EMPTY, EMPTY>> /\ cd_msg = "none"

\* no local directory and no fetched file: the commands that touch no local
\* file start from it and leave it
NoDisk == [dirs |-> {}, files |-> {}]

OpIdle == store = {} /\ store0 = {} /\ calls = << >> /\ reports = << >>
          /\ outcome = "none" /\ cmd = [op |-> "none"] /\ local_fs = NoDisk

----------------------------------------------------------------------------
(* SpecNorm: norm_path applied to a raw path, then to its own result *)

InitNorm ==
    /\ pc = "start"
    /\ np_in \in RawPaths
    /\ np_out = EMPTY
    /\ np_twice = EMPTY
    /\ CdIdle
    /\ OpIdle

Normalize ==
    /\ pc = "start"
    /\ np_out' = norm_path(np_in)
    /\ pc' = "once"
    /\ UNCHANGED <<np_in, np_twice, cdVars, opVars>>

Renormalize ==
    /\ pc = "once"
    /\ np_twice' = norm_path(np_out)
    /\ pc' = "twice"
    /\ UNCHANGED <<np_in, np_out, cdVars, opVars>>

NextNorm == Normalize \/ Renormalize

SpecNorm == InitNorm /\ [][NextNorm]_vars


\* C9: norm_path is idempotent: normalizing an already normalized path
\* returns it unchanged, for every raw path.
C9_Idempotent == pc = "twice" => np_twice = np_out

----------------------------------------------------------------------------
(* Yui.cd, one invocation of the console: __init__ reads the persisted root, *)
(* cd computes the new root and update_attr writes it back                   *)

\* Yui.__init__: self.root = attrs["root"] if attrs and attrs["root"] else ""
load_root(persisted) == IF persisted # EMPTY THEN persisted ELSE EMPTY

\* cd_segs with the pop of ".." forgotten: the segment is skipped like "."
RECURSIVE cd_segs_nopop(_, _)
cd_segs_nopop(root_segs, new_root_segs) ==
    IF root_segs = << >> THEN new_root_segs
    ELSE cd_segs_nopop(Tail(root_segs),
                       IF Head(root_segs) \in {DOT, DOTDOT} THEN new_root_segs
                       ELSE Append(new_root_segs, Head(root_segs)))

\* the segment loop of cd
RECURSIVE cd_segs(_, _)
cd_segs(root_segs, new_root_segs) ==
    IF root_segs = << >> THEN new_root_segs
    ELSE LET seg == Head(root_segs)
             nxt == IF seg = DOT THEN new_root_segs
                    ELSE IF seg = DOTDOT
                         THEN IF Len(new_root_segs) > 0 THEN butlast(new_root_segs)
                              ELSE new_root_segs
                    ELSE Append(new_root_segs, seg)
         IN  cd_segs(Tail(root_segs), nxt)

\* the root cd computes from the current root and an accepted argument
cd_root(cur, arg) ==
    LET path     == norm_path(arg)
        tmp_root == IF startswith(path, SEP) THEN Drop(path, 1) ELSE cur \o path
    IN  join(cd_segs(split(tmp_root, SEP), << >>), SEP)

\* cd_accepts with the is_dir test forgotten
cd_accepts_all(args) == TRUE

\* whether cd goes on to change the root for this argument list
cd_accepts(args) == Len(args) = 0 \/ is_dir(args[1])

CdChars == {"x", ".", "/"}

\* longest cd argument
MaxArg == 3

\* longest root kept
MaxRoot == 4

\* the cd arguments: every path over CdChars within the bound, and the
\* directory y of the scenarios, relative and absolute
CdArgs ==
    StrsUpTo(CdChars, MaxArg)
        \cup {<<"y", "/">>, <<"x", "/", "y", "/">>, <<"/", "x", "/", "y", "/">>}

\* the buckets cd runs against
CdStores == { {}, {<<"x", "/">>}, {<<"x", "/">>, <<"x", "/", "y", "/">>} }

InitCd ==
    /\ pc = "start"
    /\ NormIdle
    /\ root = EMPTY
    /\ attrs_root = EMPTY
    /\ cd_args = << >>
    /\ cd_prev = <<EMPTY, EMPTY>>
    /\ cd_msg = "none"
    /\ store \in CdStores
    /\ store0 = store
    /\ calls = << >>
    /\ reports = << >>
    /\ outcome = "none"
    /\ cmd = [op |-> "none"]
    /\ local_fs = NoDisk

cd(args) ==
    LET cur == load_root(attrs_root)
    IN  /\ cd_prev' = <<cur, attrs_root>>
        /\ pc' = "cd"
        /\ IF cd_accepts(args)
           THEN LET new == IF Len(args) = 0 THEN EMPTY ELSE cd_root(cur, args[1])
                IN  /\ Len(new) <= MaxRoot
                    /\ root' = new
                    /\ attrs_root' = new
                    /\ cd_msg' = "changed"
           ELSE /\ root' = cur
                /\ attrs_root' = attrs_root
                /\ cd_msg' = "error"
        /\ UNCHANGED <<normVars, opVars>>

\* "cd" with no argument
CdHome ==
    /\ cd_args' = << >>
    /\ cd(<< >>)

\* "cd <path>"
CdTo ==
    \E arg \in CdArgs :
        /\ cd_args' = <<arg>>
        /\ cd(<<arg>>)

NextCd == CdHome \/ CdTo

SpecCd == InitCd /\ [][NextCd]_vars


XY == <<"x", "/", "y", "/">>

XDIR == <<"x", "/">>

\* C2: cd ".." turns root "x/y/" into "x/" (one segment popped) and leaves the
\* store root "" as it is; the persisted root equals the new root both times.
C2_CdDotDot ==
    (pc = "cd" /\ cd_args = <<DOTDOT>>) =>
        /\ cd_prev[1] = XY => (root = XDIR /\ attrs_root = root /\ cd_msg = "changed")
        /\ cd_prev[1] = EMPTY => (root = EMPTY /\ attrs_root = root /\ cd_msg = "changed")

C2_Witness ==
    pc = "cd" /\ cd_args = <<DOTDOT>> /\ cd_prev[1] = XY /\ root = XDIR

\* a key exists as a directory when it is the store root or some object's
\* key lies under it
DirExists(st, key) == key = EMPTY \/ \E k \in st : startswith(k, key)

\* C3 as stated: a cd whose resolved key does not exist in the store as a
\* directory is rejected and leaves root and persisted root untouched.
C3_Original ==
    (pc = "cd" /\ Len(cd_args) = 1
        /\ ~DirExists(store, cd_root(cd_prev[1], cd_args[1]))) =>
        (cd_msg = "error" /\ root = cd_prev[1] /\ attrs_root = cd_prev[2])

\* C3 as amended: cd is rejected exactly when its argument is not
\* directory-shaped (is_dir false), whatever the store holds; a rejected cd
\* issues no store call and leaves root and persisted root untouched.
C3_RejectsNonDirShape ==
    (pc = "cd" /\ Len(cd_args) = 1) =>
        /\ (cd_msg = "error") <=> ~is_dir(cd_args[1])
        /\ cd_msg = "error" =>
              (root = cd_prev[1] /\ attrs_root = cd_prev[2] /\ calls = << >>)

C3_Witness ==
    pc = "cd" /\ cd_msg = "error" /\ cd_prev[1] = XDIR /\ root = XDIR
        /\ attrs_root = XDIR


----------------------------------------------------------------------------
(* The store (the bucket behind oss2) and the reporter callbacks *)

\* result.status >= 400 is the error threshold of every *_single helper
ERR_STATUS == 400

lex_less(a, b) ==
    \/ Len(a) < Len(b) /\ SubSeq(b, 1, Len(a)) = a
    \/ \E i \in 1..Len(a) :
          /\ i <= Len(b)
          /\ SubSeq(a, 1, i - 1) = SubSeq(b, 1, i - 1)
          /\ Ord(a[i]) < Ord(b[i])

RECURSIVE sorted(_)
sorted(S) ==
    IF S = {} THEN << >>
    ELSE LET m == CHOOSE k \in S : \A j \in S \ {k} : lex_less(k, j)
         IN  <<m>> \o sorted(S \ {m})

\* list_dir(root, True): every key with the prefix, in the store's
\* (lexicographic) order; the listing is one page, fetched when the walk starts
list_dir_all(st, prefix) == sorted({k \in st : startswith(k, prefix)})

Range(seq) == {seq[i] : i \in 1..Len(seq)}

\* Yui.on_success and Yui.on_error take (method, src, dest, result)
CALLBACK_ARITY == 4

\* a callback call: a call whose argument count does not fit the callback
\* raises TypeError before the callback runs; with no callback nothing happens
invoke(acc, reporter, cb, args) ==
    IF reporter = "none" THEN acc
    ELSE IF Len(args) # CALLBACK_ARITY THEN [acc EXCEPT !.exc = "TypeError"]
    ELSE [acc EXCEPT !.reports =
              Append(@, [cb |-> cb, method |-> args[1], src |-> args[2],
                         dest |-> args[3], status |-> args[4]])]

\* the status the store answers: 404 for a call that fails (a key named in the
\* fault set, or a copy of a key the bucket does not hold), else 200 or 204
copy_status(st, key, cfail) == IF key \in cfail \/ key \notin st THEN 404 ELSE 200

delete_status(key, dfail) == IF key \in dfail THEN 404 ELSE 204

store_copy(acc, rem_src, rem_dest, status) ==
    [acc EXCEPT !.calls = Append(@, [call |-> "copy_object", key |-> rem_src,
                                     dst |-> <<rem_dest>>, status |-> status]),
                !.st = IF status < ERR_STATUS THEN @ \cup {rem_dest} ELSE @]

store_delete(acc, rem, status) ==
    [acc EXCEPT !.calls = Append(@, [call |-> "delete_object", key |-> rem,
                                     dst |-> << >>, status |-> status]),
                !.st = IF status < ERR_STATUS THEN @ \ {rem} ELSE @]

store_list(acc, prefix) ==
    [acc EXCEPT !.calls = Append(@, [call |-> "list_objects", key |-> prefix,
                                     dst |-> << >>, status |-> 200])]

\* the running state of one manager call
start_acc(st) == [st |-> st, calls |-> << >>, reports |-> << >>, exc |-> "none"]

raise(acc, what) == [acc EXCEPT !.exc = what]

----------------------------------------------------------------------------
(* OssFileManager.copy, move and delete *)

\* prefix = SEP.join(remote_src.strip(SEP).split(SEP)[:-1]) + SEP
parent_prefix(remote_src) ==
    join(butlast(split(strip_chars(remote_src, {"/"}), SEP)), SEP) \o SEP

\* dest_key as a rename of the source directory: the directory's own name is
\* dropped from the destination
dest_key_rename(key, remote_src, remote_dest) ==
    remote_dest \o Drop(key, Len(remote_src))

\* new_path of a listed key in a directory copy or move
dest_key(key, remote_src, remote_dest) ==
    LET prefix == parent_prefix(remote_src)
    IN  IF prefix = SEP THEN remote_dest \o key
        ELSE replace(key, prefix, remote_dest)

\* the destination of a single object copied or moved into a directory
single_dest(remote_src, remote_dest) ==
    IF is_dir(remote_dest)
    THEN replace(remote_src, parent_prefix(remote_src), remote_dest)
    ELSE remote_dest

copy_single(acc, rem_src, rem_dest, cfail, reporter) ==
    LET status == copy_status(acc.st, rem_src, cfail)
        a1     == store_copy(acc, rem_src, rem_dest, status)
    IN  IF status >= ERR_STATUS
        THEN invoke(a1, reporter, "on_error", <<rem_src, <<rem_dest>>, status>>)
        ELSE invoke(a1, reporter, "on_success", <<"copy", rem_src, <<rem_dest>>, status>>)

move_single(acc, rem_old, rem_new, cfail, dfail, reporter) ==
    LET cstatus == copy_status(acc.st, rem_old, cfail)
        a1      == store_copy(acc, rem_old, rem_new, cstatus)
        a2      == IF cstatus >= ERR_STATUS
                   THEN invoke(a1, reporter, "on_error", <<rem_old, <<rem_new>>, cstatus>>)
                   ELSE a1
    IN  IF a2.exc # "none" THEN a2
        ELSE LET dstatus == delete_status(rem_old, dfail)
                 a3      == store_delete(a2, rem_old, dstatus)
             IN  IF dstatus >= ERR_STATUS
                 THEN invoke(a3, reporter, "on_error", <<"move", rem_old, <<rem_new>>, dstatus>>)
                 ELSE invoke(a3, reporter, "on_success", <<"move", rem_old, <<rem_new>>, dstatus>>)

delete_single(acc, rem, dfail, reporter) ==
    LET status == delete_status(rem, dfail)
        a1     == store_delete(acc, rem, status)
    IN  IF status >= ERR_STATUS
        THEN invoke(a1, reporter, "on_error", <<"delete", rem, << >>, status>>)
        ELSE invoke(a1, reporter, "on_success", <<"delete", rem, << >>, status>>)

\* the for loops: an exception leaves the loop
RECURSIVE copy_walk(_, _, _, _, _, _)
copy_walk(keys, remote_src, remote_dest, acc, cfail, reporter) ==
    IF keys = << >> \/ acc.exc # "none" THEN acc
    ELSE copy_walk(Tail(keys), remote_src, remote_dest,
                   copy_single(acc, Head(keys),
                               dest_key(Head(keys), remote_src, remote_dest),
                               cfail, reporter),
                   cfail, reporter)

RECURSIVE move_walk(_, _, _, _, _, _, _)
move_walk(keys, remote_old, remote_new, acc, cfail, dfail, reporter) ==
    IF keys = << >> \/ acc.exc # "none" THEN acc
    ELSE move_walk(Tail(keys), remote_old, remote_new,
                   move_single(acc, Head(keys),
                               dest_key(Head(keys), remote_old, remote_new),
                               cfail, dfail, reporter),
                   cfail, dfail, reporter)

RECURSIVE delete_walk(_, _, _, _)
delete_walk(keys, acc, dfail, reporter) ==
    IF keys = << >> \/ acc.exc # "none" THEN acc
    ELSE delete_walk(Tail(keys), delete_single(acc, Head(keys), dfail, reporter),
                     dfail, reporter)

\* the listing left in the order the store handed it out
not_reversed(seq) == seq

\* list[::-1] after list.reverse()
reversed(seq) == [i \in 1..Len(seq) |-> seq[Len(seq) + 1 - i]]

\* dest_under_src with the test forgotten
dest_under_src_never(remote_src, remote_dest) == FALSE

\* the nesting test of copy and move
dest_under_src(remote_src, remote_dest) == startswith(remote_dest, remote_src)

copy(st, raw_src, raw_dest, cfail, reporter) ==
    LET remote_src  == norm_path(raw_src)
        remote_dest == norm_path(raw_dest)
        acc         == start_acc(st)
    IN  IF is_dir(remote_src)
        THEN IF ~is_dir(remote_dest) THEN raise(acc, "destination path should also be a directory")
             ELSE IF dest_under_src(remote_src, remote_dest)
                  THEN raise(acc, "destination directory is a sub-directory of the source directory")
             ELSE copy_walk(list_dir_all(st, remote_src), remote_src, remote_dest,
                            store_list(acc, remote_src), cfail, reporter)
        ELSE copy_single(acc, remote_src, single_dest(remote_src, remote_dest),
                         cfail, reporter)

move(st, raw_old, raw_new, cfail, dfail, reporter) ==
    LET remote_old == norm_path(raw_old)
        remote_new == norm_path(raw_new)
        acc        == start_acc(st)
    IN  IF is_dir(remote_old)
        THEN IF ~is_dir(remote_new) THEN raise(acc, "destination path should also be a directory")
             ELSE IF dest_under_src(remote_old, remote_new)
                  THEN raise(acc, "destination directory is a sub-directory of the source directory")
             ELSE move_walk(list_dir_all(st, remote_old), remote_old, remote_new,
                            store_list(acc, remote_old), cfail, dfail, reporter)
        ELSE move_single(acc, remote_old, single_dest(remote_old, remote_new),
                         cfail, dfail, reporter)

\* delete with the recursive flag ignored: a directory is always walked
delete_always_walks(st, raw, recursive, dfail, reporter) ==
    LET remote == norm_path(raw)
    IN  IF is_dir(remote)
        THEN delete_walk(reversed(list_dir_all(st, remote)),
                         store_list(start_acc(st), remote), dfail, reporter)
        ELSE delete_single(start_acc(st), remote, dfail, reporter)

delete(st, raw, recursive, dfail, reporter) ==
    LET remote == norm_path(raw)
        acc    == start_acc(st)
    IN  IF is_dir(remote)
        THEN IF recursive
             THEN delete_walk(reversed(list_dir_all(st, remote)),
                              store_list(acc, remote), dfail, reporter)
             ELSE raise(acc, "The directory to be deleted is not empty!")
        ELSE delete_single(acc, remote, dfail, reporter)


----------------------------------------------------------------------------
(* Spec: one manager command (copy, move or delete) run against a bucket *)

OpChars == {"x", ".", "/"}

\* longest pair of generated path arguments, both lengths added
MaxPairLen == 6

\* every pair of paths over OpChars within the bound
GenPairs ==
    UNION {StrsOfLen(OpChars, i) \X StrsUpTo(OpChars, MaxPairLen - i) : i \in 0..MaxPairLen}

A_TXT == <<"a", ".", "t", "x", "t">>

C_TXT == <<"c", ".", "t", "x", "t">>

YDIR == <<"y", "/">>

ZDIR == <<"z", "/">>

XB == <<"x", "/", "b", "/">>

AB == <<"a", "/", "b", "/">>

\* the arguments of the scenarios: directories and files of the buckets below
ScenarioPaths ==
    { XDIR, YDIR, ZDIR, XB, AB, XDIR \o A_TXT, <<"a", "/">>, <<"z", "/", "a">>,
      <<"a", "/", "b", "/", "c">> }

ScenarioPairs == ScenarioPaths \X ScenarioPaths

\* the bucket the generated paths run against
GenStore == {XDIR, <<"x", "/", "x">>}

\* the buckets a command runs against
OpStores ==
    { {XDIR \o A_TXT, XB, XB \o C_TXT},
      {AB, AB \o <<"c">>, AB \o <<"a", "/", "c">>},
      GenStore }

\* the argument pairs tried on a bucket
ArgPairs(st) == IF st = GenStore THEN GenPairs \cup ScenarioPairs ELSE ScenarioPairs

ArgPaths(st) == {pair[1] : pair \in ArgPairs(st)}

Reporters == {"yui", "none"}

\* the keys whose store calls may fail in a command on raw path p
targets(st, p) ==
    IF is_dir(norm_path(p)) THEN {k \in st : startswith(k, norm_path(p))}
    ELSE {norm_path(p)}

Init ==
    /\ pc = "start"
    /\ NormIdle
    /\ CdIdle
    /\ store \in OpStores
    /\ store0 = store
    /\ calls = << >>
    /\ reports = << >>
    /\ outcome = "none"
    /\ cmd = [op |-> "none"]
    /\ local_fs = NoDisk

\* a command returns, or raises the exception kind its try block wraps with
finish(res, kind) ==
    /\ store' = res.st
    /\ store0' = store
    /\ calls' = res.calls
    /\ reports' = res.reports
    /\ outcome' = IF res.exc = "none" THEN [raised |-> "none", cause |-> "none"]
                  ELSE [raised |-> kind, cause |-> res.exc]
    /\ local_fs' = IF "fs" \in DOMAIN res THEN res.fs ELSE local_fs
    /\ pc' = "done"
    /\ UNCHANGED <<normVars, cdVars>>

Copy ==
    /\ pc = "start"
    /\ \E pair \in ArgPairs(store), reporter \in Reporters :
         \E cfail \in SUBSET targets(store, pair[1]) :
            /\ cmd' = [op |-> "copy", src |-> pair[1], dst |-> pair[2],
                       recursive |-> TRUE, reporter |-> reporter,
                       cfail |-> cfail, dfail |-> {}]
            /\ finish(copy(store, pair[1], pair[2], cfail, reporter), "CopyError")

Move ==
    /\ pc = "start"
    /\ \E pair \in ArgPairs(store), reporter \in Reporters :
         \E cfail \in SUBSET targets(store, pair[1]),
            dfail \in SUBSET targets(store, pair[1]) :
            /\ cmd' = [op |-> "move", src |-> pair[1], dst |-> pair[2],
                       recursive |-> TRUE, reporter |-> reporter,
                       cfail |-> cfail, dfail |-> dfail]
            /\ finish(move(store, pair[1], pair[2], cfail, dfail, reporter), "MoveError")

Delete ==
    /\ pc = "start"
    /\ \E src \in ArgPaths(store), recursive \in BOOLEAN, reporter \in Reporters :
         \E dfail \in SUBSET targets(store, src) :
            /\ cmd' = [op |-> "delete", src |-> src, dst |-> EMPTY,
                       recursive |-> recursive, reporter |-> reporter,
                       cfail |-> {}, dfail |-> dfail]
            /\ finish(delete(store, src, recursive, dfail, reporter), "DeleteError")

Next == Copy \/ Move \/ Delete

Spec == Init /\ [][Next]_vars


----------------------------------------------------------------------------
(* Claims about copy, move and delete *)

S1 == {XDIR \o A_TXT, XB, XB \o C_TXT}

\* S1 in listing order
S1Listing == <<XDIR \o A_TXT, XB, XB \o C_TXT>>

\* the copy and delete calls of the last command, in the order issued
mutations == SelectSeq(calls, LAMBDA c : c.call \in {"copy_object", "delete_object"})

\* the keys the directory walk of the last command listed
listed == list_dir_all(store0, norm_path(cmd.src))

\* the last command walked a directory listing
walked == Len(calls) > 0 /\ calls[1].call = "list_objects"

\* move("x/", "y/") on S1 with every copy answered below 400
C1_Case ==
    /\ pc = "done"
    /\ cmd.op = "move" /\ cmd.src = XDIR /\ cmd.dst = YDIR
    /\ store0 = S1 /\ cmd.cfail = {}

\* one copy then one delete per key of S1 in listing order, key k copied to
\* dest followed by k without its first n characters
C1_Pairs(dest, n) ==
    /\ Len(mutations) = 6
    /\ \A i \in 1..3 :
          /\ mutations[2 * i - 1].call = "copy_object"
          /\ mutations[2 * i - 1].key = S1Listing[i]
          /\ mutations[2 * i - 1].dst = <<dest \o Drop(S1Listing[i], n)>>
          /\ mutations[2 * i].call = "delete_object"
          /\ mutations[2 * i].key = S1Listing[i]

C4_Refused == outcome.raised = "CopyError" /\ calls = << >> /\ store = store0

\* C4 as stated: copy(dirA, dirB) with directory-shaped keys, dirB having dirA
\* as a prefix, fails with CopyError before any store call.
C4_Original ==
    (pc = "done" /\ cmd.op = "copy"
        /\ endswith(cmd.src, SEP) /\ endswith(cmd.dst, SEP)
        /\ startswith(cmd.dst, cmd.src)) => C4_Refused

\* C4 as amended: the nesting is judged on the normalized keys: when
\* norm_path(dirB) has norm_path(dirA) as a prefix, and so whenever dirA and
\* dirB are already normalized and dirB has dirA as a prefix, copy fails with
\* CopyError, issues no store call and leaves the store as it was.
C4_NestedNormalized ==
    (pc = "done" /\ cmd.op = "copy"
        /\ endswith(cmd.src, SEP) /\ endswith(cmd.dst, SEP)) =>
        /\ startswith(norm_path(cmd.dst), norm_path(cmd.src)) => C4_Refused
        /\ (norm_path(cmd.src) = cmd.src /\ norm_path(cmd.dst) = cmd.dst
               /\ startswith(cmd.dst, cmd.src)) => C4_Refused

C4_Witness ==
    /\ pc = "done" /\ cmd.op = "copy" /\ cmd.src = XDIR /\ cmd.dst = XB
    /\ store0 = S1 /\ C4_Refused

\* C6: in a directory walk of copy, move or delete with a reporter, a status
\* >= 400 for a descendant is reported to the error callback and does not
\* abort the walk: every listed key still gets its store call and the
\* command returns without raising.
C6_ErrorStatusDoesNotAbort ==
    (pc = "done" /\ cmd.reporter = "yui" /\ cmd.recursive /\ walked
        /\ \E i \in 1..Len(calls) : calls[i].status >= ERR_STATUS) =>
        /\ outcome.raised = "none"
        /\ \A k \in Range(listed) :
              \E i \in 1..Len(calls) :
                  /\ calls[i].key = k
                  /\ calls[i].call = IF cmd.op = "delete" THEN "delete_object"
                                     ELSE "copy_object"
        /\ \A i \in 1..Len(calls) :
              calls[i].status >= ERR_STATUS =>
                  \E j \in 1..Len(reports) :
                      reports[j].cb = "on_error" /\ reports[j].src = calls[i].key

\* C7: in move with a reporter, a copy answered with a status >= 400 is
\* reported to the error callback for that pair and is still followed by the
\* store delete of the same source key.
C7_DeleteFollowsFailedCopy ==
    (pc = "done" /\ cmd.op = "move" /\ cmd.reporter = "yui") =>
        \A i \in 1..Len(calls) :
            (calls[i].call = "copy_object" /\ calls[i].status >= ERR_STATUS) =>
                /\ \E j \in 1..Len(reports) :
                      /\ reports[j].cb = "on_error"
                      /\ reports[j].src = calls[i].key
                      /\ reports[j].dest = calls[i].dst
                /\ i < Len(calls)
                /\ calls[i + 1].call = "delete_object"
                /\ calls[i + 1].key = calls[i].key

\* the keys of the bucket under a directory-shaped key, the key itself apart
descendants(st, dir) ==
    {k \in st : k # dir /\ k # norm_path(dir)
                /\ (startswith(k, dir) \/ startswith(k, norm_path(dir)))}

\* C8: delete(dir, recursive=false) on a directory-shaped key with a
\* descendant in the store fails with DeleteError, issues no store delete and
\* leaves the store as it was.
C8_NonRecursiveDeleteRefused ==
    (pc = "done" /\ cmd.op = "delete" /\ ~cmd.recursive
        /\ endswith(cmd.src, SEP) /\ descendants(store0, cmd.src) # {}) =>
        /\ outcome.raised = "DeleteError"
        /\ \A i \in 1..Len(calls) : calls[i].call # "delete_object"
        /\ store = store0

C8_Witness ==
    /\ pc = "done" /\ cmd.op = "delete" /\ ~cmd.recursive
    /\ cmd.src = XDIR /\ store0 = S1
    /\ outcome.raised = "DeleteError" /\ store = S1

\* C10: in a copy or move of a directory whose parent prefix P is not the
\* root, every listed key k = P + rest gets exactly one store copy, to the
\* destination directory followed by rest unchanged.
C10_OnlyLeadingPrefixReplaced ==
    (pc = "done" /\ cmd.op \in {"copy", "move"} /\ walked /\ cmd.cfail = {}
        /\ parent_prefix(norm_path(cmd.src)) # SEP) =>
        LET P == parent_prefix(norm_path(cmd.src))
        IN  \A k \in Range(listed) :
                startswith(k, P) =>
                    /\ Cardinality({i \in 1..Len(calls) :
                           calls[i].call = "copy_object" /\ calls[i].key = k}) = 1
                    /\ \A i \in 1..Len(calls) :
                           (calls[i].call = "copy_object" /\ calls[i].key = k) =>
                               calls[i].dst = <<norm_path(cmd.dst) \o Drop(k, Len(P))>>


----------------------------------------------------------------------------
(* OssFileManager.upload.  A local path is an absolute path, a str like the *)
(* keys; the local filesystem is the set of its directories and of its      *)
(* files.                                                                   *)

\* os.path.split(local)[-1]
basename(local) == LET parts == split(local, os_sep) IN parts[Len(parts)]

\* os.path.join(local, name)
path_join(local, name) == local \o os_sep \o name

\* os.listdir(local): the names in the directory, in the order the
\* filesystem hands them out (order: every name of the filesystem, ranked)
listdir(fs, local, order) ==
    SelectSeq(order, LAMBDA n : path_join(local, n) \in fs.dirs \cup fs.files)

put_status(key, pfail) == IF key \in pfail THEN 404 ELSE 200

\* Bucket.put_object (marker) and Bucket.put_object_from_file
store_put(acc, call, key, file, status) ==
    [acc EXCEPT !.calls = Append(@, [call |-> call, key |-> key,
                                     dst |-> file, status |-> status]),
                !.st = IF status < ERR_STATUS THEN @ \cup {key} ELSE @]

\* report_upload with the status test lost: every write counts as a success
report_upload_always_success(acc, reporter, local, remote, status) ==
    invoke(acc, reporter, "on_success", <<"upload", local, <<remote>>, status>>)

\* the callback at the end of upload
report_upload(acc, reporter, local, remote, status) ==
    IF status >= ERR_STATUS
    THEN invoke(acc, reporter, "on_error", <<"upload", local, <<remote>>, status>>)
    ELSE invoke(acc, reporter, "on_success", <<"upload", local, <<remote>>, status>>)

\* dest_remote of upload
upload_dest(fs, local, remote) ==
    (IF is_dir(remote) THEN remote \o basename(local) ELSE remote)
        \o (IF local \in fs.dirs THEN SEP ELSE EMPTY)

RECURSIVE upload(_, _, _, _, _, _, _, _)
RECURSIVE upload_each(_, _, _, _, _, _, _, _)

upload(acc, fs, local, raw_remote, recursive, pfail, reporter, order) ==
    LET remote      == norm_path(raw_remote)
        dest_remote == upload_dest(fs, local, remote)
        status      == put_status(dest_remote, pfail)
    IN  IF local \in fs.dirs
        THEN IF ~is_dir(dest_remote)
             THEN raise(acc, "remote path should be a directory")
             ELSE LET a1 == store_put(acc, "put_object", dest_remote, << >>, status)
                      a2 == IF recursive
                            THEN upload_each(a1, fs, listdir(fs, local, order), local,
                                             dest_remote, pfail, reporter, order)
                            ELSE a1
                  IN  IF a2.exc # "none" THEN a2
                      ELSE report_upload(a2, reporter, local, remote, status)
        ELSE IF local \notin fs.files THEN raise(acc, "FileNotFoundError")
        ELSE report_upload(store_put(acc, "put_object_from_file", dest_remote,
                                     <<local>>, status),
                           reporter, local, remote, status)

\* for subdir in os.listdir(local): self.upload(join(local, subdir), dest_remote, ...)
upload_each(acc, fs, names, local, dest_remote, pfail, reporter, order) ==
    IF names = << >> \/ acc.exc # "none" THEN acc
    ELSE upload_each(upload(acc, fs, path_join(local, Head(names)), dest_remote,
                            TRUE, pfail, reporter, order),
                     fs, Tail(names), local, dest_remote, pfail, reporter, order)

----------------------------------------------------------------------------
(* SpecUpload: one upload command *)

LD == <<"/", "d">>

\* the local trees uploaded from: /d empty, /d with two files, /d with a file
\* and a subdirectory holding a file, /d with nested subdirectories
LocalTrees ==
    { [dirs |-> {LD}, files |-> {}],
      [dirs |-> {LD}, files |-> {LD \o <<"/", "f">>, LD \o <<"/", "g">>}],
      [dirs |-> {LD, LD \o <<"/", "c">>},
       files |-> {LD \o <<"/", "f">>, LD \o <<"/", "c", "/", "g">>}],
      [dirs |-> {LD, LD \o <<"/", "c">>, LD \o <<"/", "c", "/", "b">>},
       files |-> {LD \o <<"/", "c", "/", "b", "/", "f">>, LD \o <<"/", "g">>}] }

LocalNames == {<<"b">>, <<"c">>, <<"f">>, <<"g">>}

\* every order os.listdir may hand the names out in
ListOrders ==
    {o \in [1..Cardinality(LocalNames) -> LocalNames] :
        \A i, j \in DOMAIN o : i # j => o[i] # o[j]}

\* the remote arguments of upload: a directory, a plain key, the root
UploadRemotes == {<<"z", "/">>, <<"z">>, EMPTY, <<"/">>}

\* the keys an upload writes when nothing fails
put_keys(fs, local, remote, recursive, order) ==
    {c.key : c \in Range(upload(start_acc({}), fs, local, remote, recursive, {},
                                "none", order).calls)}

InitUpload ==
    /\ pc = "start"
    /\ NormIdle
    /\ CdIdle
    /\ store = {}
    /\ store0 = {}
    /\ calls = << >>
    /\ reports = << >>
    /\ outcome = "none"
    /\ cmd = [op |-> "none"]
    /\ local_fs = NoDisk

Upload ==
    /\ pc = "start"
    /\ \E fs \in LocalTrees, remote \in UploadRemotes, recursive \in BOOLEAN,
          reporter \in Reporters, order \in ListOrders :
         \E local \in fs.dirs \cup fs.files :
            \E pfail \in SUBSET put_keys(fs, local, remote, recursive, order) :
               /\ cmd' = [op |-> "upload", src |-> local, dst |-> remote,
                          recursive |-> recursive, reporter |-> reporter,
                          cfail |-> {}, dfail |-> {}, pfail |-> pfail,
                          fs |-> fs, order |-> order]
               /\ finish(upload(start_acc(store), fs, local, remote, recursive,
                                pfail, reporter, order), "UploadError")

NextUpload == Upload

SpecUpload == InitUpload /\ [][NextUpload]_vars

\* the directories and files of the local tree below the uploaded directory
sub_dirs == {d \in cmd.fs.dirs : d # cmd.src /\ startswith(d, cmd.src \o os_sep)}

sub_files == {f \in cmd.fs.files : startswith(f, cmd.src \o os_sep)}

writes(kind) == {i \in 1..Len(calls) : calls[i].call = kind}

\* a recursive upload of a local directory, with the reporter, that returned
C5_Case ==
    /\ pc = "done" /\ cmd.op = "upload" /\ cmd.recursive
    /\ cmd.src \in cmd.fs.dirs /\ cmd.reporter = "yui"
    /\ outcome.raised = "none"

\* each write is reported once, to on_success below 400 and to on_error otherwise
C5_EachReportedOnce ==
    /\ Len(reports) = Len(calls)
    /\ \A i \in 1..Len(calls) :
          LET mine == {j \in 1..Len(reports) :
                          upload_dest(cmd.fs, reports[j].src, reports[j].dest[1])
                              = calls[i].key}
          IN  /\ Cardinality(mine) = 1
              /\ \A j \in mine :
                    /\ reports[j].status = calls[i].status
                    /\ reports[j].cb = IF calls[i].status < ERR_STATUS
                                       THEN "on_success" ELSE "on_error"

\* C5 as stated: a recursive upload of a local directory makes exactly one
\* marker write plus one object write per descendant file, each reported once.
C5_Original ==
    C5_Case =>
        /\ Cardinality(writes("put_object")) = 1
        /\ Cardinality(writes("put_object_from_file")) = Cardinality(sub_files)
        /\ C5_EachReportedOnce

\* C5 as amended: one marker write per local directory (the uploaded one and
\* every descendant directory) plus one object write per descendant file,
\* each of them reported exactly once, to the success callback below 400 and
\* to the error callback otherwise.
C5_MarkerPerDirectory ==
    C5_Case =>
        /\ Cardinality(writes("put_object")) = 1 + Cardinality(sub_dirs)
        /\ Cardinality(writes("put_object_from_file")) = Cardinality(sub_files)
        /\ C5_EachReportedOnce

C5_Witness ==
    /\ C5_Case
    /\ sub_dirs # {} /\ sub_files # {}
    /\ \E i \in 1..Len(reports) : reports[i].cb = "on_error"
    /\ \E i \in 1..Len(reports) : reports[i].cb = "on_success"

----------------------------------------------------------------------------
(* OssFileManager.download.  The local filesystem is the set of its         *)
(* directories and the set of the files fetched into it, both as normalized *)
(* absolute paths.                                                          *)

\* rem.strip(SEP).split(SEP)[-1]
key_name(rem) ==
    LET parts == split(strip_chars(rem, {"/"}), SEP) IN parts[Len(parts)]

\* postfix = SEP.join(subdir.key.strip(SEP).split(SEP)[:-1])
postfix(key) == join(butlast(split(strip_chars(key, {"/"}), SEP)), SEP)

\* os.path.isdir(loc)
isdir(fs, loc) == normpath(loc) \in fs.dirs

\* the directory a normalized absolute path lies in
parent_dir(path) ==
    LET head == join(butlast(split(path, os_sep)), os_sep)
    IN  IF head = EMPTY THEN os_sep ELSE head

\* the error of the kernel's walk to the parent of a path: "none" when the
\* parent is a directory, ENOTDIR when a file is in the way, else ENOENT
walk_error(fs, path) ==
    IF parent_dir(path) \in fs.dirs THEN "none"
    ELSE IF \E f \in fs.files : startswith(path, f \o os_sep)
         THEN "NotADirectoryError"
         ELSE "FileNotFoundError"

\* the running state of a download: the manager call and the local filesystem
start_download(st, fs) ==
    [st |-> st, fs |-> fs, calls |-> << >>, reports |-> << >>, exc |-> "none"]

\* os.mkdir(dest_loc)
os_mkdir(acc, dest_loc) ==
    LET path == normpath(dest_loc)
    IN  IF walk_error(acc.fs, path) # "none" THEN raise(acc, walk_error(acc.fs, path))
        ELSE IF path \in acc.fs.dirs \cup acc.fs.files THEN raise(acc, "FileExistsError")
        ELSE [acc EXCEPT !.calls = Append(@, [call |-> "mkdir", key |-> dest_loc]),
                         !.fs.dirs = @ \cup {path}]

\* the status of Bucket.get_object_to_file: 404 for a key in the fault set or
\* not in the bucket
get_status(st, key, gfail) == IF key \in gfail \/ key \notin st THEN 404 ELSE 200

\* Bucket.get_object_to_file(rem, dest_loc): the file is opened for writing,
\* then the object is fetched into it
get_object_to_file(acc, rem, dest_loc, status) ==
    LET path == normpath(dest_loc)
    IN  IF walk_error(acc.fs, path) # "none" THEN raise(acc, walk_error(acc.fs, path))
        ELSE IF path \in acc.fs.dirs THEN raise(acc, "IsADirectoryError")
        ELSE [acc EXCEPT !.calls = Append(@, [call |-> "get_object_to_file",
                                              key |-> rem, dst |-> <<dest_loc>>,
                                              status |-> status]),
                         !.fs.files = IF status < ERR_STATUS THEN @ \cup {path} ELSE @]

\* dest_loc of download_single
download_dest(fs, rem, loc) ==
    (IF isdir(fs, loc) THEN loc \o os_sep \o key_name(rem) ELSE loc)
        \o (IF is_dir(rem) THEN os_sep ELSE EMPTY)

download_single(acc, rem, loc, gfail, reporter) ==
    LET dest_loc == download_dest(acc.fs, rem, loc)
    IN  IF is_dir(rem)
        THEN LET a1 == os_mkdir(acc, dest_loc)
             IN  IF a1.exc # "none" THEN a1
                 ELSE invoke(a1, reporter, "on_success", <<"download", rem, <<loc>>, "mkdir">>)
        ELSE LET status == get_status(acc.st, rem, gfail)
                 a1     == get_object_to_file(acc, rem, dest_loc, status)
             IN  IF a1.exc # "none" THEN a1
                 ELSE IF status >= ERR_STATUS
                 THEN invoke(a1, reporter, "on_error", <<"download", rem, <<loc>>, status>>)
                 ELSE invoke(a1, reporter, "on_success", <<"download", rem, <<loc>>, status>>)

\* dest_local of a listed key
dest_local(local, key) == normpath(join(<<local, postfix(key)>>, SEP))

\* for subdir in self.list_dir(remote, True): an exception leaves the loop
RECURSIVE download_walk(_, _, _, _, _)
download_walk(keys, local, acc, gfail, reporter) ==
    IF keys = << >> \/ acc.exc # "none" THEN acc
    ELSE download_walk(Tail(keys), local,
                       download_single(acc, Head(keys), dest_local(local, Head(keys)),
                                       gfail, reporter),
                       gfail, reporter)

\* download(remote, local, recursive); raw_local is an absolute path, so
\* os.path.abspath normalizes it
download(st, fs, raw_remote, raw_local, recursive, gfail, reporter) ==
    LET local  == normpath(raw_local)
        remote == norm_path(raw_remote)
        a1     == download_single(start_download(st, fs), remote, local, gfail, reporter)
    IN  IF a1.exc # "none" \/ ~(is_dir(remote) /\ recursive) THEN a1
        ELSE download_walk(list_dir_all(st, remote), local, store_list(a1, remote),
                           gfail, reporter)

----------------------------------------------------------------------------
(* SpecDownload: one download command *)

\* the buckets downloaded from: a directory with a marked subdirectory, a
\* directory with its own marker, a directory whose subdirectory has no
\* marker, and nested directories
DownloadStores ==
    { {XDIR \o A_TXT, XB, XB \o C_TXT},
      {XDIR, XDIR \o A_TXT},
      {XB \o C_TXT},
      {AB, AB \o <<"c">>},
      {AB, AB \o <<"c">>, AB \o <<"a", "/", "c">>} }

\* the remote arguments of download: directories, plain keys, the root
DownloadRemotes ==
    { XDIR, XB, AB, <<"a", "/">>, XDIR \o A_TXT, AB \o <<"c">>, <<"x">>, EMPTY }

\* the local disks: /d empty, /d holding a directory x, /d holding a file x
LocalDisks ==
    { [dirs |-> {os_sep, LD}, files |-> {}],
      [dirs |-> {os_sep, LD, LD \o <<"/", "x">>}, files |-> {}],
      [dirs |-> {os_sep, LD}, files |-> {LD \o <<"/", "x">>}] }

\* the local arguments of download: the directory /d, with and without a
\* trailing separator, and two paths that may not exist yet
DownloadLocals ==
    { LD, LD \o <<"/">>, LD \o <<"/", "x">>, LD \o <<"/", "g">> }

InitDownload ==
    /\ pc = "start"
    /\ NormIdle
    /\ CdIdle
    /\ store \in DownloadStores
    /\ store0 = store
    /\ calls = << >>
    /\ reports = << >>
    /\ outcome = "none"
    /\ cmd = [op |-> "none"]
    /\ local_fs \in LocalDisks

Download ==
    /\ pc = "start"
    /\ \E remote \in DownloadRemotes, local \in DownloadLocals,
          recursive \in BOOLEAN, reporter \in Reporters :
         \E gfail \in SUBSET targets(store, remote) :
            /\ cmd' = [op |-> "download", src |-> remote, dst |-> local,
                       recursive |-> recursive, reporter |-> reporter,
                       cfail |-> {}, dfail |-> {}, gfail |-> gfail,
                       fs |-> local_fs]
            /\ finish(download(store, local_fs, remote, local, recursive,
                               gfail, reporter), "DownloadError")

NextDownload == Download

SpecDownload == InitDownload /\ [][NextDownload]_vars

\* the local disk whose directory /d is empty
FreshDisk == [dirs |-> {os_sep, LD}, files |-> {}]

\* the directory-shaped key D a download was asked for
C11_D == norm_path(cmd.src)

\* a recursive download of D into the existing, fresh directory /d in which
\* no call raised and every fetch was answered below the error threshold
C11_Case ==
    /\ pc = "done" /\ cmd.op = "download" /\ cmd.recursive
    /\ is_dir(C11_D)
    /\ cmd.fs = FreshDisk /\ normpath(cmd.dst) = LD
    /\ outcome.cause = "none"
    /\ \A i \in 1..Len(calls) :
          calls[i].call = "get_object_to_file" => calls[i].status < ERR_STATUS

\* L/basename(D)/rest for the descendant key D + rest
C11_Target(key) ==
    normpath(LD \o os_sep \o key_name(C11_D) \o os_sep \o Drop(key, Len(C11_D)))

\* C11: a recursive download of the directory-shaped key D into the existing,
\* fresh local directory L whose calls all succeed returns without
\* DownloadError and leaves every descendant key D + rest at L/basename(D)/rest,
\* as a local directory for a directory-shaped key and as a fetched file
\* otherwise.
C11_DescendantsRerooted ==
    C11_Case =>
        /\ outcome.raised = "none"
        /\ \A key \in descendants(store0, C11_D) :
              IF is_dir(key) THEN C11_Target(key) \in local_fs.dirs
              ELSE C11_Target(key) \in local_fs.files

----------------------------------------------------------------------------
(* The order of a recursive delete *)

\* the store deletes of the last command, in the order they were issued
deletes == SelectSeq(calls, LAMBDA c : c.call = "delete_object")

\* a recursive delete of a directory-shaped key
C12_Case ==
    /\ pc = "done" /\ cmd.op = "delete" /\ cmd.recursive
    /\ is_dir(norm_path(cmd.src))

\* C12: delete(dir, recursive=true) issues exactly one store delete per key of
\* the recursive listing of dir, in the reverse of the listing order; so every
\* key is deleted before any listed key that is a proper prefix of it (a
\* directory marker goes after all of its contents).
C12_ReverseListingOrder ==
    C12_Case =>
        /\ Len(deletes) = Len(listed)
        /\ \A i \in 1..Len(deletes) : deletes[i].key = listed[Len(listed) + 1 - i]
        /\ \A i, j \in 1..Len(deletes) :
              (deletes[i].key # deletes[j].key
                  /\ startswith(deletes[i].key, deletes[j].key)) => i < j

\* x/ is deleted recursively from the bucket {x/a.txt, x/b/, x/b/c.txt}: three
\* deletes, the marker x/b/ after x/b/c.txt, one of them answered with an error
C12_Witness ==
    /\ C12_Case
    /\ store0 = S1 /\ norm_path(cmd.src) = XDIR
    /\ Len(deletes) = 3
    /\ deletes[1].key = XB \o C_TXT /\ deletes[2].key = XB
    /\ \E i \in 1..Len(deletes) : deletes[i].status >= ERR_STATUS

----------------------------------------------------------------------------
(* The shape of the stored root *)

\* a key with no leading separator that ends in exactly one separator and has
\* no empty, "." or ".." segment
well_formed_dir(key) ==
    /\ ~startswith(key, SEP)
    /\ endswith(key, SEP)
    /\ \A seg \in Range(butlast(split(key, SEP))) : seg \notin {EMPTY, DOT, DOTDOT}

\* C13: after any sequence of cd commands started from root "", the stored
\* root is either "" (the store root) or a key with no leading separator that
\* ends in exactly one separator and contains no empty, "." or ".." segment.
C13_RootWellFormed ==
    /\ root = EMPTY \/ well_formed_dir(root)
    /\ attrs_root = EMPTY \/ well_formed_dir(attrs_root)

=============================================================================
